---- MODULE Spec2Model ----
(***************************************************************************)
(* A model of the log-scanning pipeline and the two scoring engines:       *)
(*   src/python/src/blockchain/contract_reader.py  (ContractReader)        *)
(*   src/python/src/scoring/holder_analysis.py     (HolderAnalyzer)        *)
(*   src/python/src/scoring/unique_eoa.py          (UniqueEOAAnalyzer)     *)
(*                                                                         *)
(* Python floats are modelled as exact rationals [num, den] in lowest      *)
(* terms (den > 0); round(x, 2) is modelled as rounding to the nearest     *)
(* hundredth.  Python ints are unbounded, the model keeps them small.      *)
(***************************************************************************)
EXTENDS Integers, Sequences, FiniteSets, TLC

(***************************************************************************)
(* Bounds of the model.                                                    *)
(***************************************************************************)
\* a balance read answers 0..MaxBalance
MaxBalance == 2
\* a log query answers at most MaxLogs raw logs
MaxLogs == 2
\* block ranges span up to MaxSpan full batches plus a remainder
MaxSpan == 1
\* time_window_hours is -1..MaxHours
MaxHours == 1
\* the scoring functions are applied to percentages k / PctSteps in 0..100,
PctSteps == 4
\* to EOA counts 0..MaxEOA with time windows -1..MaxScoreHours,
MaxEOA == 310
MaxScoreHours == 3
\* and to mappings of up to TOP_N + ExtraHolders holders
ExtraHolders == 2
\* calls made of one read of ContractReader
MaxReads == 2
\* transfer records given to the analysis of a list of events
MaxEvents == 3

(***************************************************************************)
(* Program constants.                                                      *)
(***************************************************************************)
\* holder_analysis.py:59  BATCH_SIZE = 1000
BATCH_SIZE == 1000
\* holder_analysis.py:83  if smaller_batch < 100
MIN_BATCH == 100
\* holder_analysis.py:170  top10 = sorted_holders[:10]
TOP_N == 10
\* holder_analysis.py:71  "0x0000000000000000000000000000000000000000"
ZERO_ADDRESS == 0

\* the addresses of the model: the zero address and two others
Addresses == {ZERO_ADDRESS, 1, 2}

(***************************************************************************)
(* Rationals, standing for Python floats.                                  *)
(***************************************************************************)
Abs(x) == IF x < 0 THEN -x ELSE x

RECURSIVE GCD(_, _)
GCD(a, b) == IF b = 0 THEN a ELSE GCD(b, a % b)

Rat(n, d) ==
    LET g == GCD(Abs(n), Abs(d))
        s == IF d < 0 THEN -1 ELSE 1
    IN  [num |-> (s * n) \div g, den |-> (s * d) \div g]

RatInt(n) == [num |-> n, den |-> 1]
RatAdd(a, b) == Rat(a.num * b.den + b.num * a.den, a.den * b.den)
RatSub(a, b) == Rat(a.num * b.den - b.num * a.den, a.den * b.den)
RatMul(a, b) == Rat(a.num * b.num, a.den * b.den)
RatDiv(a, b) == Rat(a.num * b.den, a.den * b.num)
RatLe(a, b) == a.num * b.den <= b.num * a.den
RatLt(a, b) == a.num * b.den < b.num * a.den

\* round(x, 2): the nearest multiple of 1/100, an exact tie going to the even
\* hundredth.
Round2(x) ==
    LET twice == 200 * x.num + x.den
        q == twice \div (2 * x.den)
        tie == twice % (2 * x.den) = 0
    IN  Rat(IF tie /\ q % 2 # 0 THEN q - 1 ELSE q, 100)

(***************************************************************************)
(* ContractReader (contract_reader.py).                                    *)
(***************************************************************************)
Min(a, b) == IF a < b THEN a ELSE b

\* A raw log of eth_getLogs: process_log either decodes it into a Transfer
\* record with these from/to, or raises (ok = FALSE).
MalformedLog == [ok |-> FALSE, from |-> ZERO_ADDRESS, to |-> ZERO_ADDRESS]
RawLogs ==
    {[ok |-> TRUE, from |-> f, to |-> t] : f \in Addresses, t \in Addresses}
        \cup {MalformedLog}

RECURSIVE SeqsUpTo(_, _)
SeqsUpTo(S, n) ==
    IF n = 0 THEN {<< >>}
    ELSE LET shorter == SeqsUpTo(S, n - 1)
         IN  shorter \cup {Append(q, x) : q \in {r \in shorter : Len(r) = n - 1}, x \in S}

\* What one eth_getLogs round trip does: it answers a list of raw logs, fails
\* with a "block range too large" message, or fails with any other message.
QueryOutcomes ==
    {[kind |-> "ok", logs |-> l] : l \in SeqsUpTo(RawLogs, MaxLogs)}
        \cup {[kind |-> "capacity", logs |-> << >>], [kind |-> "other", logs |-> << >>]}

\* formatted_events with the try around the loop: the first log that does
\* not decode ends the batch
RECURSIVE formatted_events_abort(_)
formatted_events_abort(logs) ==
    IF logs = << >> THEN << >>
    ELSE LET log == Head(logs)
         IN  IF log.ok
             THEN <<[from |-> log.from, to |-> log.to]>> \o formatted_events_abort(Tail(logs))
             ELSE << >>

\* process_log and the formatting of one event (lines 199-212): the records
\* of the logs that decode, in log order.
RECURSIVE formatted_events(_)
formatted_events(logs) ==
    IF logs = << >> THEN << >>
    ELSE LET log == Head(logs)
             rest == formatted_events(Tail(logs))
         IN  IF log.ok THEN <<[from |-> log.from, to |-> log.to]>> \o rest
             ELSE rest

\* get_transfer_events (lines 181-218): the outer except swallows every
\* failure of the log query and returns [].  The answer says whether the
\* call raised to its caller, with which message, and the events returned.
get_transfer_events(outcome) ==
    IF outcome.kind = "ok"
    THEN [raised |-> FALSE, msg |-> "", events |-> formatted_events(outcome.logs)]
    ELSE [raised |-> FALSE, msg |-> "", events |-> << >>]

\* A balanceOf round trip answers a value or fails.
BalanceOutcomes == (0..MaxBalance) \cup {-1}

\* get_balance (lines 116-130): 0 when the call fails.
get_balance(outcome) == IF outcome = -1 THEN 0 ELSE outcome

\* What a call of name(), symbol(), decimals() or totalSupply() does: it
\* answers a value or fails.
NameOutcomes ==
    {[failed |-> FALSE, value |-> v] : v \in {"Token", "Unknown", ""}}
        \cup {[failed |-> TRUE, value |-> ""]}
SymbolOutcomes ==
    {[failed |-> FALSE, value |-> v] : v \in {"TKN", "UNKNOWN", ""}}
        \cup {[failed |-> TRUE, value |-> ""]}
DecimalsOutcomes ==
    {[failed |-> FALSE, value |-> v] : v \in {0, 6, 18}}
        \cup {[failed |-> TRUE, value |-> 0]}
SupplyOutcomes ==
    {[failed |-> FALSE, value |-> v] : v \in 0..MaxBalance}
        \cup {[failed |-> TRUE, value |-> 0]}

\* get_name (lines 82-87)
get_name(outcome) == IF outcome.failed THEN "Unknown" ELSE outcome.value

\* get_symbol (lines 89-94)
get_symbol(outcome) == IF outcome.failed THEN "UNKNOWN" ELSE outcome.value

\* get_decimals with 0 for its default
get_decimals_zero(outcome) == IF outcome.failed THEN 0 ELSE outcome.value

\* get_decimals (lines 96-101)
get_decimals(outcome) == IF outcome.failed THEN 18 ELSE outcome.value

\* get_total_supply (lines 103-108)
get_total_supply(outcome) == IF outcome.failed THEN 0 ELSE outcome.value

(***************************************************************************)
(* HolderAnalyzer (holder_analysis.py): the pure parts.                    *)
(***************************************************************************)
\* the from and to addresses of a list of events
event_addresses(events) ==
    {events[i].from : i \in 1..Len(events)} \cup {events[i].to : i \in 1..Len(events)}

\* add_addresses with the set assigned instead of updated
add_addresses_overwrite(all, events) == event_addresses(events) \ {ZERO_ADDRESS}

\* add_addresses without the test for the zero address
add_addresses_unfiltered(all, events) == all \cup event_addresses(events)

\* lines 69-74 and 90-94: add from and to of every event, but the zero address
RECURSIVE add_addresses(_, _)
add_addresses(all, events) ==
    IF events = << >> THEN all
    ELSE LET event == Head(events)
             a1 == IF event.from # ZERO_ADDRESS THEN all \cup {event.from} ELSE all
             a2 == IF event.to # ZERO_ADDRESS THEN a1 \cup {event.to} ELSE a1
         IN  add_addresses(a2, Tail(events))

\* holders is a dict: a sequence of [addr, balance] in insertion order.
RECURSIVE SumBalances(_)
SumBalances(h) == IF h = << >> THEN 0 ELSE Head(h).balance + SumBalances(Tail(h))

\* insert x into a sequence sorted by descending balance, after its equals
RECURSIVE InsertDesc(_, _)
InsertDesc(sorted, x) ==
    IF sorted = << >> THEN <<x>>
    ELSE IF Head(sorted).balance >= x.balance
         THEN <<Head(sorted)>> \o InsertDesc(Tail(sorted), x)
         ELSE <<x>> \o sorted

\* line 169: sorted(holders.items(), key=balance, reverse=True), a stable sort
RECURSIVE sorted_holders(_)
sorted_holders(h) ==
    IF h = << >> THEN << >>
    ELSE InsertDesc(sorted_holders(SubSeq(h, 1, Len(h) - 1)), h[Len(h)])

\* top10_of on a list sorted without reverse=True: the ten smallest
top10_of_smallest(h) ==
    SubSeq(sorted_holders(h), Len(h) - Min(TOP_N, Len(h)) + 1, Len(h))

\* top10_of without the sort: the first ten of the dict
top10_of_unsorted(h) == SubSeq(h, 1, Min(TOP_N, Len(h)))

\* line 170: sorted_holders[:10]
top10_of(h) == SubSeq(sorted_holders(h), 1, Min(TOP_N, Len(h)))

\* _calculate_score without the test of line 213
HolderAnalyzer_calculate_score_uncapped(top10_percentage) ==
    IF RatLe(top10_percentage, RatInt(20)) THEN RatInt(30)
    ELSE IF RatLe(top10_percentage, RatInt(40))
         THEN RatSub(RatInt(30), RatMul(RatSub(top10_percentage, RatInt(20)), Rat(3, 4)))
         ELSE RatSub(RatInt(15), RatMul(RatSub(top10_percentage, RatInt(40)), Rat(3, 8)))

\* lines 196-215
HolderAnalyzer_calculate_score(top10_percentage) ==
    IF RatLe(top10_percentage, RatInt(20)) THEN RatInt(30)
    ELSE IF RatLe(top10_percentage, RatInt(40))
         THEN RatSub(RatInt(30), RatMul(RatSub(top10_percentage, RatInt(20)), Rat(3, 4)))
         ELSE IF RatLe(RatInt(80), top10_percentage) THEN RatInt(0)
              ELSE RatSub(RatInt(15), RatMul(RatSub(top10_percentage, RatInt(40)), Rat(3, 8)))

\* _determine_risk_level with < for <=
HolderAnalyzer_determine_risk_level_strict(top10_percentage) ==
    IF RatLt(top10_percentage, RatInt(20)) THEN "low_risk"
    ELSE IF RatLt(top10_percentage, RatInt(40)) THEN "medium_risk"
         ELSE IF RatLt(top10_percentage, RatInt(60)) THEN "high_risk"
              ELSE "extreme_risk"

\* lines 217-231
HolderAnalyzer_determine_risk_level(top10_percentage) ==
    IF RatLe(top10_percentage, RatInt(20)) THEN "low_risk"
    ELSE IF RatLe(top10_percentage, RatInt(40)) THEN "medium_risk"
         ELSE IF RatLe(top10_percentage, RatInt(60)) THEN "high_risk"
              ELSE "extreme_risk"

\* lines 172-174
top10_percentage_of(top10_sum, total_supply) ==
    IF total_supply > 0
    THEN RatMul(Rat(top10_sum, total_supply), RatInt(100))
    ELSE RatInt(0)

\* concentration_result without the test of line 154
concentration_result_unguarded(h) ==
    LET total_supply == SumBalances(h)
        top10 == top10_of(h)
        top10_sum == SumBalances(top10)
        pct == top10_percentage_of(top10_sum, total_supply)
    IN  [total_holders |-> Len(h), total_supply |-> total_supply,
         top10_holders |-> top10, top10_percentage |-> pct,
         score |-> HolderAnalyzer_calculate_score(pct),
         risk_level |-> HolderAnalyzer_determine_risk_level(pct)]

\* lines 154-194: the result of analyze_holder_concentration for a mapping
concentration_result(h) ==
    IF Len(h) = 0
    THEN [total_holders |-> 0, total_supply |-> 0, top10_holders |-> << >>,
          top10_percentage |-> RatInt(0), score |-> RatInt(0),
          risk_level |-> "unknown", error |-> "No holders found"]
    ELSE LET total_supply == SumBalances(h)
             top10 == top10_of(h)
             top10_sum == SumBalances(top10)
             pct == top10_percentage_of(top10_sum, total_supply)
         IN  [total_holders |-> Len(h), total_supply |-> total_supply,
              top10_holders |-> top10, top10_percentage |-> pct,
              score |-> HolderAnalyzer_calculate_score(pct),
              risk_level |-> HolderAnalyzer_determine_risk_level(pct)]

(***************************************************************************)
(* UniqueEOAAnalyzer (unique_eoa.py): the score.                           *)
(***************************************************************************)
\* _calculate_score with > for >= at both thresholds
UniqueEOAAnalyzer_calculate_score_strict(unique_eoa_count, time_window_hours) ==
    IF time_window_hours = 0
    THEN [raised |-> TRUE, score |-> RatInt(0), risk_level |-> ""]
    ELSE LET normalized_count == Rat(unique_eoa_count, time_window_hours)
         IN  IF RatLt(RatInt(300), normalized_count)
             THEN [raised |-> FALSE, score |-> Round2(RatInt(40)), risk_level |-> "low_risk"]
             ELSE IF RatLt(RatInt(50), normalized_count)
                  THEN [raised |-> FALSE,
                        score |-> Round2(RatAdd(RatInt(20),
                                    RatMul(RatDiv(RatSub(normalized_count, RatInt(50)),
                                                  RatInt(250)), RatInt(20)))),
                        risk_level |-> "medium_risk"]
                  ELSE [raised |-> FALSE,
                        score |-> Round2(RatMul(RatDiv(normalized_count, RatInt(50)),
                                                RatInt(20))),
                        risk_level |-> "high_risk"]

\* lines 160-193.  time_window_hours = 0 makes the division of line 177 raise
\* ZeroDivisionError.
UniqueEOAAnalyzer_calculate_score(unique_eoa_count, time_window_hours) ==
    IF time_window_hours = 0
    THEN [raised |-> TRUE, score |-> RatInt(0), risk_level |-> ""]
    ELSE LET normalized_count == Rat(unique_eoa_count, time_window_hours)
         IN  IF RatLe(RatInt(300), normalized_count)
             THEN [raised |-> FALSE, score |-> Round2(RatInt(40)), risk_level |-> "low_risk"]
             ELSE IF RatLe(RatInt(50), normalized_count)
                  THEN [raised |-> FALSE,
                        score |-> Round2(RatAdd(RatInt(20),
                                    RatMul(RatDiv(RatSub(normalized_count, RatInt(50)),
                                                  RatInt(250)), RatInt(20)))),
                        risk_level |-> "medium_risk"]
                  ELSE [raised |-> FALSE,
                        score |-> Round2(RatMul(RatDiv(normalized_count, RatInt(50)),
                                                RatInt(20))),
                        risk_level |-> "high_risk"]

(***************************************************************************)
(* The state.                                                              *)
(***************************************************************************)
VARIABLES
    has_code,           \* the chain: whether an address holds code (a fact)
    use_cache,          \* the analyzers' use_cache argument
    db,                 \* HolderAnalyzer.db: the entry holders_<token>
    cache,              \* UniqueEOAAnalyzer.cache: the entries is_eoa_<address>
    analyzer,           \* the analyzer constructed: its class
    op,                 \* the public operation running
    pc,                 \* its position: idle, scan, balances, classify, done, raised
    from_block, to_block, time_window_hours,    \* its arguments
    current,            \* get_all_holders: the cursor
    all_addresses,      \* the participant set of the running operation
    checked,            \* get_all_holders: addresses whose balance was read
    holders,            \* get_all_holders: the dict, in insertion order
    events,             \* the activity operations: the events read
    idx,                \* the activity operations: events classified so far
    eoa_addresses, contract_addresses,          \* analyze_transfer_events
    eoa_tx_count,       \* get_eoa_activity_stats
    result,             \* what the operation returned
    queries,            \* history: the log queries of this call, in order
    seen,               \* history: addresses in the logs the queries answered
    balance_reads, code_reads,                  \* history: external reads
    arg, ret,           \* argument and result of a scoring function
    chain,              \* two invocations side by side: the Transfer logs of the chain
    inv                 \* two invocations side by side: the locals of each

vars == <<has_code, use_cache, db, cache, analyzer, op, pc, from_block, to_block,
          time_window_hours, current, all_addresses, checked, holders, events,
          idx, eoa_addresses, contract_addresses, eoa_tx_count, result,
          queries, seen, balance_reads, code_reads, arg, ret, chain, inv>>

chainVars == <<has_code, use_cache, analyzer>>
raceVars == <<chain, inv>>
holderLocals == <<current, checked, holders>>
activityLocals == <<events, idx, eoa_addresses, contract_addresses, eoa_tx_count>>
scoreVars == <<arg, ret>>

NoResult == [none |-> TRUE]
\* what an operation that raised leaves its caller with
Raised(exception) == [exception |-> exception]
NoArg == [fn |-> "none"]

\* the block ranges [from_block, to_block] an operation is called with
FromBlocks == {100}
Widths ==
    {k * (BATCH_SIZE + 1) + d : k \in 0..MaxSpan, d \in {0, 2 * MIN_BATCH - 1, 2 * MIN_BATCH}}
\* the activity operations issue one query whatever the range: a single block
\* and the widest range
ActivityWidths == {0, MaxSpan * (BATCH_SIZE + 1) + 2 * MIN_BATCH}
Hours == (-1)..MaxHours

(***************************************************************************)
(* The cache collaborator (SimpleDB): get answers the stored value or       *)
(* nothing; an entry may expire.                                           *)
(***************************************************************************)
NoEntry == [present |-> FALSE, value |-> << >>]
SimpleDB_set(value) == [present |-> TRUE, value |-> value]
NoFact == [present |-> FALSE, value |-> FALSE]
Fact(b) == [present |-> TRUE, value |-> b]

\* `if cached:` (line 47): a dict is true when it is not empty
cached_holders_usable(entry) == entry.present /\ Len(entry.value) > 0

(***************************************************************************)
(* Web3Client.is_contract: the code-at-address read answers whether the    *)
(* address holds code, or fails.                                           *)
(***************************************************************************)
CodeOutcomes == {"answer", "fail"}
is_contract(address, outcome) ==
    IF outcome = "fail" THEN [raised |-> TRUE, value |-> FALSE]
    ELSE [raised |-> FALSE, value |-> has_code[address]]

\* is_eoa testing `if cached:` in place of `if cached is not None:`: a stored
\* False counts as a miss
is_eoa_truthy(c, address, outcome) ==
    IF use_cache /\ c[address].present /\ c[address].value
    THEN [raised |-> FALSE, value |-> c[address].value, cache |-> c, reads |-> 0]
    ELSE LET r == is_contract(address, outcome)
         IN  IF r.raised
             THEN [raised |-> TRUE, value |-> FALSE, cache |-> c, reads |-> 1]
             ELSE [raised |-> FALSE, value |-> ~r.value,
                   cache |-> IF use_cache THEN [c EXCEPT ![address] = Fact(~r.value)] ELSE c,
                   reads |-> 1]

\* is_eoa (unique_eoa.py lines 37-67) on cache c: whether it raised, the
\* boolean returned, the cache afterwards and the number of code reads.
is_eoa(c, address, outcome) ==
    IF use_cache /\ c[address].present
    THEN [raised |-> FALSE, value |-> c[address].value, cache |-> c, reads |-> 0]
    ELSE LET r == is_contract(address, outcome)
         IN  IF r.raised
             THEN [raised |-> TRUE, value |-> FALSE, cache |-> c, reads |-> 1]
             ELSE [raised |-> FALSE, value |-> ~r.value,
                   cache |-> IF use_cache THEN [c EXCEPT ![address] = Fact(~r.value)] ELSE c,
                   reads |-> 1]

(***************************************************************************)
(* Construction.                                                           *)
(***************************************************************************)
\* the locals of an invocation that has not been made
IdleInvocation ==
    [op |-> "none", pc |-> "idle", from_block |-> 0, to_block |-> 0,
     address |-> ZERO_ADDRESS, current |-> 0, all_addresses |-> {}, checked |-> {},
     holders |-> << >>, value |-> FALSE]

\* the two invocations that may run side by side
Invocations == {1, 2}

\* the logs of the chain, by block: those of from_block and those of the
\* blocks after it
NoLogs == [first |-> << >>, rest |-> << >>]

\* no invocation runs beside the operation
NoRace == chain = NoLogs /\ inv = [p \in Invocations |-> IdleInvocation]

Idle ==
    /\ op = "none" /\ pc = "idle"
    /\ from_block = 0 /\ to_block = 0 /\ time_window_hours = 1
    /\ current = 0 /\ all_addresses = {} /\ checked = {} /\ holders = << >>
    /\ events = << >> /\ idx = 0
    /\ eoa_addresses = {} /\ contract_addresses = {}
    /\ eoa_tx_count = [a \in Addresses |-> 0]
    /\ result = NoResult
    /\ queries = << >> /\ seen = {} /\ balance_reads = 0 /\ code_reads = 0

\* An analyzer is constructed with empty caches.  Only UniqueEOAAnalyzer reads
\* code, so the code facts vary only under it.
Init ==
    /\ analyzer \in {"HolderAnalyzer", "UniqueEOAAnalyzer"}
    /\ has_code \in IF analyzer = "UniqueEOAAnalyzer" THEN [Addresses -> BOOLEAN]
                    ELSE {[a \in Addresses |-> FALSE]}
    /\ use_cache \in BOOLEAN
    /\ db = NoEntry
    /\ cache = [a \in Addresses |-> NoFact]
    /\ Idle
    /\ NoRace
    /\ arg = NoArg /\ ret = NoResult

(***************************************************************************)
(* HolderAnalyzer.get_all_holders and analyze_holder_concentration.        *)
(***************************************************************************)
HolderOps == {"get_all_holders", "analyze_holder_concentration"}

\* what the running operation returns for the mapping h (lines 126, 152-194)
holder_return(o, h) ==
    IF o = "analyze_holder_concentration" THEN concentration_result(h)
    ELSE [holders |-> h]

\* addresses of the raw logs a query answered, the zero address left out
logged_addresses(outcome) ==
    {outcome.logs[i].from : i \in {j \in 1..Len(outcome.logs) : outcome.logs[j].ok}}
        \cup {outcome.logs[i].to : i \in {j \in 1..Len(outcome.logs) : outcome.logs[j].ok}}

\* lines 43-61: the cache check; a hit returns the stored mapping, a miss
\* starts the scan at from_block.
CallHolders ==
    /\ pc = "idle" /\ analyzer = "HolderAnalyzer"
    /\ \E o \in HolderOps, fb \in FromBlocks, w \in Widths :
        /\ op' = o /\ from_block' = fb /\ to_block' = fb + w
        /\ time_window_hours' = 1
        /\ all_addresses' = {} /\ checked' = {}
        /\ queries' = << >> /\ seen' = {} /\ balance_reads' = 0 /\ code_reads' = 0
        /\ IF use_cache /\ cached_holders_usable(db)
           THEN /\ holders' = db.value
                /\ result' = holder_return(o, db.value)
                /\ current' = 0
                /\ pc' = "done"
           ELSE /\ holders' = << >>
                /\ result' = NoResult
                /\ current' = fb
                /\ pc' = "scan"
    /\ UNCHANGED <<chainVars, raceVars, db, cache, activityLocals, scoreVars>>

\* lines 120-126: store the mapping when use_cache is on, and return it
FinishHolders(h) ==
    /\ db' = IF use_cache THEN SimpleDB_set(h) ELSE db
    /\ result' = holder_return(op, h)
    /\ pc' = "done"

\* after the scan: the balance loop (lines 107-118) runs when there is an
\* address, otherwise the operation returns at once.
AfterScan(addrs) ==
    IF addrs = {} THEN FinishHolders(<< >>)
    ELSE /\ pc' = "balances"
         /\ UNCHANGED <<db, result>>

\* batch_end_of without the min
batch_end_of_unclamped(cur, to) == cur + BATCH_SIZE

\* line 64
batch_end_of(cur, to) == Min(cur + BATCH_SIZE, to)

\* next_current without the + 1
next_current_stay(batch_end) == batch_end

\* next_current one block too far
next_current_skip(batch_end) == batch_end + 2

\* lines 76, 85, 95, 98, 101: current = batch_end + 1
next_current(batch_end) == batch_end + 1

Query(start, end, kind) == [start |-> start, end |-> end, kind |-> kind]

\* one iteration of the while loop, lines 63-102
ScanBatch ==
    /\ pc = "scan" /\ current <= to_block
    /\ \E o1 \in QueryOutcomes :
        LET batch_end == batch_end_of(current, to_block)
            r1 == get_transfer_events(o1)
            smaller_batch == (batch_end - current) \div 2
            retry_end == current + smaller_batch
        IN  IF ~r1.raised
            THEN \* lines 68-76
                 LET addrs == add_addresses(all_addresses, r1.events)
                 IN  /\ all_addresses' = addrs
                     /\ current' = next_current(batch_end)
                     /\ queries' = Append(queries, Query(current, batch_end, o1.kind))
                     /\ seen' = seen \cup logged_addresses(o1)
                     /\ IF next_current(batch_end) <= to_block
                        THEN pc' = "scan" /\ UNCHANGED <<db, result>>
                        ELSE AfterScan(addrs)
            ELSE IF r1.msg = "capacity"
                 THEN IF smaller_batch < MIN_BATCH
                      THEN \* lines 83-86
                           /\ current' = next_current(batch_end)
                           /\ queries' = Append(queries, Query(current, batch_end, o1.kind))
                           /\ UNCHANGED <<all_addresses, seen>>
                           /\ IF next_current(batch_end) <= to_block
                              THEN pc' = "scan" /\ UNCHANGED <<db, result>>
                              ELSE AfterScan(all_addresses)
                      ELSE \* lines 87-99: one retry over half the width
                           \E o2 \in QueryOutcomes :
                             LET r2 == get_transfer_events(o2)
                                 addrs == IF r2.raised THEN all_addresses
                                          ELSE add_addresses(all_addresses, r2.events)
                             IN  /\ all_addresses' = addrs
                                 /\ current' = next_current(retry_end)
                                 /\ queries' = queries \o
                                        <<Query(current, batch_end, o1.kind),
                                          Query(current, retry_end, o2.kind)>>
                                 /\ seen' = seen \cup logged_addresses(o2)
                                 /\ IF next_current(retry_end) <= to_block
                                    THEN pc' = "scan" /\ UNCHANGED <<db, result>>
                                    ELSE AfterScan(addrs)
                 ELSE \* lines 100-102
                      /\ current' = next_current(batch_end)
                      /\ queries' = Append(queries, Query(current, batch_end, o1.kind))
                      /\ UNCHANGED <<all_addresses, seen>>
                      /\ IF next_current(batch_end) <= to_block
                         THEN pc' = "scan" /\ UNCHANGED <<db, result>>
                         ELSE AfterScan(all_addresses)
    /\ UNCHANGED <<chainVars, raceVars, cache, op, from_block, to_block,
                   time_window_hours, checked, holders, activityLocals,
                   balance_reads, code_reads, scoreVars>>

\* one iteration of the balance loop, lines 108-118; the set is iterated in
\* an arbitrary order.  After the last address the mapping is stored and
\* returned.
BalanceRead ==
    /\ pc = "balances"
    /\ \E addr \in all_addresses \ checked, o \in BalanceOutcomes :
        LET balance == get_balance(o)
            h == IF balance > 0
                 THEN Append(holders, [addr |-> addr, balance |-> balance])
                 ELSE holders
        IN  /\ holders' = h
            /\ checked' = checked \cup {addr}
            /\ balance_reads' = balance_reads + 1
            /\ IF checked \cup {addr} = all_addresses
               THEN FinishHolders(h)
               ELSE pc' = "balances" /\ UNCHANGED <<db, result>>
    /\ UNCHANGED <<chainVars, raceVars, cache, op, from_block, to_block,
                   time_window_hours, current, all_addresses, activityLocals,
                   queries, seen, code_reads, scoreVars>>

(***************************************************************************)
(* UniqueEOAAnalyzer.analyze_transfer_events and get_eoa_activity_stats.   *)
(***************************************************************************)
ActivityOps == {"analyze_transfer_events", "get_eoa_activity_stats"}

\* lines 101-110
no_events_result ==
    [unique_eoa_count |-> 0, unique_eoa_list |-> {}, total_addresses |-> 0,
     contract_addresses |-> 0, score |-> RatInt(0), risk_level |-> "high_risk",
     message |-> "No transfer events found"]

\* activity_result with the zero address left out of what it reports
activity_result_no_zero(all, eoa, contracts, hours, n_events) ==
    LET s == UniqueEOAAnalyzer_calculate_score(Cardinality(eoa \ {ZERO_ADDRESS}), hours)
    IN  [raised |-> s.raised,
         value |-> [unique_eoa_count |-> Cardinality(eoa \ {ZERO_ADDRESS}),
                    unique_eoa_list |-> eoa \ {ZERO_ADDRESS},
                    total_addresses |-> Cardinality(all \ {ZERO_ADDRESS}),
                    contract_addresses |-> Cardinality(contracts \ {ZERO_ADDRESS}),
                    score |-> s.score, risk_level |-> s.risk_level,
                    time_window_hours |-> hours, events_count |-> n_events]]

\* activity_result counting the from and to of every event, not the set
activity_result_mentions(all, eoa, contracts, hours, n_events) ==
    LET s == UniqueEOAAnalyzer_calculate_score(Cardinality(eoa), hours)
    IN  [raised |-> s.raised,
         value |-> [unique_eoa_count |-> Cardinality(eoa), unique_eoa_list |-> eoa,
                    total_addresses |-> 2 * n_events,
                    contract_addresses |-> Cardinality(contracts),
                    score |-> s.score, risk_level |-> s.risk_level,
                    time_window_hours |-> hours, events_count |-> n_events]]

\* lines 143-158
activity_result(all, eoa, contracts, hours, n_events) ==
    LET s == UniqueEOAAnalyzer_calculate_score(Cardinality(eoa), hours)
    IN  [raised |-> s.raised,
         value |-> [unique_eoa_count |-> Cardinality(eoa), unique_eoa_list |-> eoa,
                    total_addresses |-> Cardinality(all),
                    contract_addresses |-> Cardinality(contracts),
                    score |-> s.score, risk_level |-> s.risk_level,
                    time_window_hours |-> hours, events_count |-> n_events]]

RECURSIVE SumOver(_, _)
SumOver(f, S) ==
    IF S = {} THEN 0
    ELSE LET x == CHOOSE y \in S : TRUE IN f[x] + SumOver(f, S \ {x})

\* lines 222-243
stats_result(count) ==
    LET eoas == {a \in Addresses : count[a] > 0}
        total_eoa == Cardinality(eoas)
        high_freq == Cardinality({a \in eoas : count[a] > 10})
        single_tx == Cardinality({a \in eoas : count[a] = 1})
    IN  IF total_eoa = 0
        THEN [total_eoa |-> 0, avg_tx_per_eoa |-> RatInt(0),
              high_frequency_eoa |-> 0, single_tx_eoa |-> 0]
        ELSE [total_eoa |-> total_eoa,
              avg_tx_per_eoa |-> Round2(Rat(SumOver(count, eoas), total_eoa)),
              high_frequency_eoa |-> high_freq, single_tx_eoa |-> single_tx,
              high_freq_percentage |-> Round2(Rat(high_freq * 100, total_eoa)),
              single_tx_percentage |-> Round2(Rat(single_tx * 100, total_eoa))]

\* the event loop of analyze_transfer_events (lines 119-141) over a list of
\* events, every code read answering: the three sets and the cache afterwards
RECURSIVE classify_events(_, _)
classify_events(evs, acc) ==
    IF evs = << >> THEN acc
    ELSE LET event == Head(evs)
             e1 == is_eoa(acc.cache, event.from, "answer")
             e2 == is_eoa(e1.cache, event.to, "answer")
         IN  classify_events(Tail(evs),
                [all |-> acc.all \cup {event.from, event.to},
                 eoa |-> acc.eoa \cup (IF e1.value THEN {event.from} ELSE {})
                                 \cup (IF e2.value THEN {event.to} ELSE {}),
                 contracts |-> acc.contracts
                                 \cup (IF e1.value THEN {} ELSE {event.from})
                                 \cup (IF e2.value THEN {} ELSE {event.to}),
                 cache |-> e2.cache])

\* analyze_transfer_events (lines 101-158) on the events its query returned,
\* from an empty cache: whether it raised and the result
analyze_transfer_events(evs, hours) ==
    IF evs = << >> THEN [raised |-> FALSE, value |-> no_events_result]
    ELSE LET acc == classify_events(evs,
                        [all |-> {}, eoa |-> {}, contracts |-> {},
                         cache |-> [a \in Addresses |-> NoFact]])
         IN  activity_result(acc.all, acc.eoa, acc.contracts, hours, Len(evs))

\* lines 94-110 and 207-228: one log query over the whole range; with no
\* event the operation returns at once.
CallActivity ==
    /\ pc = "idle" /\ analyzer = "UniqueEOAAnalyzer"
    /\ \E o \in ActivityOps, fb \in FromBlocks, w \in ActivityWidths, h \in Hours,
          o1 \in QueryOutcomes :
        LET r1 == get_transfer_events(o1)
        IN  /\ op' = o /\ from_block' = fb /\ to_block' = fb + w
            /\ time_window_hours' = IF o = "analyze_transfer_events" THEN h ELSE 1
            /\ queries' = <<Query(fb, fb + w, o1.kind)>>
            /\ seen' = logged_addresses(o1)
            /\ balance_reads' = 0 /\ code_reads' = 0
            /\ all_addresses' = {} /\ eoa_addresses' = {} /\ contract_addresses' = {}
            /\ eoa_tx_count' = [a \in Addresses |-> 0]
            /\ idx' = 0
            /\ IF r1.raised
               THEN events' = << >> /\ result' = Raised(r1.msg) /\ pc' = "raised"
               ELSE /\ events' = r1.events
                    /\ IF r1.events = << >>
                       THEN /\ result' = IF o = "analyze_transfer_events"
                                         THEN no_events_result
                                         ELSE stats_result([a \in Addresses |-> 0])
                            /\ pc' = "done"
                       ELSE result' = NoResult /\ pc' = "classify"
    /\ UNCHANGED <<chainVars, raceVars, db, cache, holderLocals, scoreVars>>

\* one iteration of the event loop (lines 119-141 or 213-220): is_eoa on from,
\* then on to.  After the last event the operation computes its result.
ClassifyEvent ==
    /\ pc = "classify"
    /\ \E c1 \in CodeOutcomes, c2 \in CodeOutcomes :
        LET event == events[idx + 1]
            e1 == is_eoa(cache, event.from, c1)
            e2 == is_eoa(e1.cache, event.to, c2)
            all == all_addresses \cup {event.from, event.to}
            eoa == eoa_addresses
                     \cup (IF e1.value THEN {event.from} ELSE {})
                     \cup (IF e2.value THEN {event.to} ELSE {})
            contracts == contract_addresses
                     \cup (IF e1.value THEN {} ELSE {event.from})
                     \cup (IF e2.value THEN {} ELSE {event.to})
            count1 == IF e1.value
                      THEN [eoa_tx_count EXCEPT ![event.from] = @ + 1]
                      ELSE eoa_tx_count
            count == IF e2.value THEN [count1 EXCEPT ![event.to] = @ + 1] ELSE count1
            last == idx + 1 = Len(events)
            res == activity_result(all, eoa, contracts, time_window_hours, Len(events))
        IN  IF e1.raised
            THEN /\ pc' = "raised"
                 /\ result' = Raised("is_contract failed")
                 /\ code_reads' = code_reads + e1.reads
                 /\ UNCHANGED <<cache, all_addresses, idx, eoa_addresses,
                                contract_addresses, eoa_tx_count>>
            ELSE IF e2.raised
                 THEN /\ pc' = "raised"
                      /\ result' = Raised("is_contract failed")
                      /\ cache' = e1.cache
                      /\ code_reads' = code_reads + e1.reads + e2.reads
                      /\ UNCHANGED <<all_addresses, idx, eoa_addresses,
                                     contract_addresses, eoa_tx_count>>
                 ELSE /\ cache' = e2.cache
                      /\ code_reads' = code_reads + e1.reads + e2.reads
                      /\ idx' = idx + 1
                      /\ IF op = "analyze_transfer_events"
                         THEN /\ all_addresses' = all
                              /\ eoa_addresses' = eoa
                              /\ contract_addresses' = contracts
                              /\ UNCHANGED eoa_tx_count
                              /\ IF ~last THEN pc' = "classify" /\ UNCHANGED result
                                 ELSE IF res.raised
                                      THEN pc' = "raised"
                                           /\ result' = Raised("ZeroDivisionError")
                                      ELSE pc' = "done" /\ result' = res.value
                         ELSE /\ eoa_tx_count' = count
                              /\ UNCHANGED <<all_addresses, eoa_addresses,
                                             contract_addresses>>
                              /\ IF ~last THEN pc' = "classify" /\ UNCHANGED result
                                 ELSE pc' = "done" /\ result' = stats_result(count)
    /\ UNCHANGED <<chainVars, raceVars, db, op, from_block, to_block,
                   time_window_hours, holderLocals, events, queries, seen,
                   balance_reads, scoreVars>>

Next == CallHolders \/ ScanBatch \/ BalanceRead \/ CallActivity \/ ClassifyEvent

Spec == Init /\ [][Next]_vars

(***************************************************************************)
(* An analyzer called again and again: an operation that has returned or   *)
(* raised leaves the analyzer ready for the next call, with its cache as   *)
(* the calls so far left it; a cache entry may expire between two calls.   *)
(***************************************************************************)
\* the caller has its answer; the locals of the call are gone
Return ==
    /\ pc \in {"done", "raised"}
    /\ op' = "none" /\ pc' = "idle"
    /\ from_block' = 0 /\ to_block' = 0 /\ time_window_hours' = 1
    /\ current' = 0 /\ all_addresses' = {} /\ checked' = {} /\ holders' = << >>
    /\ events' = << >> /\ idx' = 0
    /\ eoa_addresses' = {} /\ contract_addresses' = {}
    /\ eoa_tx_count' = [a \in Addresses |-> 0]
    /\ result' = NoResult
    /\ queries' = << >> /\ seen' = {} /\ balance_reads' = 0 /\ code_reads' = 0
    /\ UNCHANGED <<chainVars, raceVars, db, cache, scoreVars>>

\* the freshness window of the cache collaborator: an entry becomes absent
Expire ==
    /\ pc = "idle"
    /\ \/ /\ analyzer = "HolderAnalyzer" /\ db.present
          /\ db' = NoEntry
          /\ UNCHANGED cache
       \/ /\ analyzer = "UniqueEOAAnalyzer"
          /\ \E a \in Addresses :
                /\ cache[a].present
                /\ cache' = [cache EXCEPT ![a] = NoFact]
          /\ UNCHANGED db
    /\ UNCHANGED <<chainVars, raceVars, op, pc, from_block, to_block, time_window_hours,
                   holderLocals, all_addresses, activityLocals, result, queries,
                   seen, balance_reads, code_reads, scoreVars>>

\* is_eoa called on its own (unique_eoa.py lines 37-67)
CallIsEoa ==
    /\ pc = "idle" /\ analyzer = "UniqueEOAAnalyzer"
    /\ \E address \in Addresses, c \in CodeOutcomes :
        LET e == is_eoa(cache, address, c)
        IN  /\ op' = "is_eoa"
            /\ cache' = e.cache
            /\ code_reads' = e.reads
            /\ all_addresses' = {address}
            /\ IF e.raised
               THEN pc' = "raised" /\ result' = Raised("is_contract failed")
               ELSE pc' = "done" /\ result' = [is_eoa |-> e.value]
    /\ UNCHANGED <<chainVars, raceVars, db, from_block, to_block, time_window_hours,
                   holderLocals, activityLocals, queries, seen, balance_reads,
                   scoreVars>>

RepeatNext == Next \/ Return \/ Expire \/ CallIsEoa

RepeatSpec == Init /\ [][RepeatNext]_vars

(***************************************************************************)
(* Two invocations on one analyzer, interleaved at their external calls:   *)
(* each has its own locals (inv[p]); they share the cache and the chain.   *)
(* The logs of a block range are a fact of the chain, the same for both.   *)
(***************************************************************************)
\* the logs a block may hold here: a mint to an address
RaceLogs == {[ok |-> TRUE, from |-> ZERO_ADDRESS, to |-> t] : t \in Addresses \ {ZERO_ADDRESS}}
RaceChains == [first : SeqsUpTo(RaceLogs, 1), rest : SeqsUpTo(RaceLogs, 1)]

\* a single block, and a range of one batch too narrow for a halved retry
RaceWidths == {0, 2 * MIN_BATCH - 1}

\* what the eth_getLogs round trip over [start, end] does on this chain
RaceQueryOutcomes(start, end) ==
    {[kind |-> "ok", logs |-> IF end > start THEN chain.first \o chain.rest ELSE chain.first],
     [kind |-> "capacity", logs |-> << >>], [kind |-> "other", logs |-> << >>]}

\* one iteration of the while loop (holder_analysis.py lines 63-102) on the
\* locals: the cursor and the participant set afterwards
scanned(cur, to, all, o1, o2) ==
    LET batch_end == batch_end_of(cur, to)
        r1 == get_transfer_events(o1)
        smaller_batch == (batch_end - cur) \div 2
        r2 == get_transfer_events(o2)
    IN  IF ~r1.raised
        THEN [current |-> next_current(batch_end),
              all_addresses |-> add_addresses(all, r1.events)]
        ELSE IF r1.msg = "capacity" /\ smaller_batch >= MIN_BATCH
             THEN [current |-> next_current(cur + smaller_batch),
                   all_addresses |-> IF r2.raised THEN all
                                     ELSE add_addresses(all, r2.events)]
             ELSE [current |-> next_current(batch_end), all_addresses |-> all]

RaceInit ==
    /\ analyzer \in {"HolderAnalyzer", "UniqueEOAAnalyzer"}
    /\ has_code \in IF analyzer = "UniqueEOAAnalyzer" THEN [Addresses -> BOOLEAN]
                    ELSE {[a \in Addresses |-> FALSE]}
    /\ use_cache = TRUE
    /\ db = NoEntry
    /\ cache = [a \in Addresses |-> NoFact]
    /\ Idle
    /\ chain \in IF analyzer = "HolderAnalyzer" THEN RaceChains ELSE {NoLogs}
    /\ inv = [p \in Invocations |-> IdleInvocation]
    /\ arg = NoArg /\ ret = NoResult

raceShared == <<has_code, use_cache, analyzer, chain, op, pc, from_block, to_block,
                time_window_hours, current, all_addresses, checked, holders,
                events, idx, eoa_addresses, contract_addresses, eoa_tx_count,
                result, queries, seen, balance_reads, code_reads, arg, ret>>

\* get_all_holders, lines 43-61: the cache check
RaceCallHolders(p) ==
    /\ inv[p].pc = "idle" /\ analyzer = "HolderAnalyzer"
    /\ \E fb \in FromBlocks, w \in RaceWidths :
        inv' = [inv EXCEPT ![p] =
                  IF use_cache /\ cached_holders_usable(db)
                  THEN [@ EXCEPT !.op = "get_all_holders", !.pc = "done",
                                 !.from_block = fb, !.to_block = fb + w,
                                 !.holders = db.value]
                  ELSE [@ EXCEPT !.op = "get_all_holders", !.pc = "scan",
                                 !.from_block = fb, !.to_block = fb + w,
                                 !.current = fb]]
    /\ UNCHANGED <<raceShared, db, cache>>

\* lines 63-102: one iteration of the scan
RaceScanBatch(p) ==
    /\ inv[p].pc = "scan"
    /\ LET batch_end == batch_end_of(inv[p].current, inv[p].to_block)
       IN  \E o1 \in RaceQueryOutcomes(inv[p].current, batch_end),
              o2 \in RaceQueryOutcomes(inv[p].current,
                                       inv[p].current + (batch_end - inv[p].current) \div 2) :
             LET s == scanned(inv[p].current, inv[p].to_block, inv[p].all_addresses, o1, o2)
             IN  inv' = [inv EXCEPT ![p] =
                           [@ EXCEPT !.current = s.current,
                                     !.all_addresses = s.all_addresses,
                                     !.pc = IF s.current <= inv[p].to_block THEN "scan"
                                            ELSE IF s.all_addresses = {} THEN "store"
                                            ELSE "balances"]]
    /\ UNCHANGED <<raceShared, db, cache>>

\* lines 107-118: one balance read
RaceBalanceRead(p) ==
    /\ inv[p].pc = "balances"
    /\ \E addr \in inv[p].all_addresses \ inv[p].checked, o \in BalanceOutcomes :
        LET balance == get_balance(o)
        IN  inv' = [inv EXCEPT ![p] =
                      [@ EXCEPT !.checked = @ \cup {addr},
                                !.holders = IF balance > 0
                                            THEN Append(@, [addr |-> addr, balance |-> balance])
                                            ELSE @,
                                !.pc = IF inv[p].checked \cup {addr} = inv[p].all_addresses
                                       THEN "store" ELSE "balances"]]
    /\ UNCHANGED <<raceShared, db, cache>>

\* lines 120-126: store the mapping under holders_<token> and return it
RaceStoreHolders(p) ==
    /\ inv[p].pc = "store" /\ inv[p].op = "get_all_holders"
    /\ db' = IF use_cache THEN SimpleDB_set(inv[p].holders) ELSE db
    /\ inv' = [inv EXCEPT ![p].pc = "done"]
    /\ UNCHANGED <<raceShared, cache>>

\* is_eoa, unique_eoa.py lines 53-57: the cache check
RaceCallIsEoa(p) ==
    /\ inv[p].pc = "idle" /\ analyzer = "UniqueEOAAnalyzer"
    /\ \E address \in Addresses :
        inv' = [inv EXCEPT ![p] =
                  IF use_cache /\ cache[address].present
                  THEN [@ EXCEPT !.op = "is_eoa", !.pc = "done", !.address = address,
                                 !.value = cache[address].value]
                  ELSE [@ EXCEPT !.op = "is_eoa", !.pc = "read", !.address = address]]
    /\ UNCHANGED <<raceShared, db, cache>>

\* lines 60-61: the code read
RaceCodeRead(p) ==
    /\ inv[p].pc = "read"
    /\ \E c \in CodeOutcomes :
        LET r == is_contract(inv[p].address, c)
        IN  inv' = [inv EXCEPT ![p] =
                      IF r.raised THEN [@ EXCEPT !.pc = "raised"]
                      ELSE [@ EXCEPT !.pc = "store", !.value = ~r.value]]
    /\ UNCHANGED <<raceShared, db, cache>>

\* lines 64-67: store the boolean under is_eoa_<address> and return it
RaceStoreFact(p) ==
    /\ inv[p].pc = "store" /\ inv[p].op = "is_eoa"
    /\ cache' = IF use_cache
                THEN [cache EXCEPT ![inv[p].address] = Fact(inv[p].value)]
                ELSE cache
    /\ inv' = [inv EXCEPT ![p].pc = "done"]
    /\ UNCHANGED <<raceShared, db>>

RaceNext ==
    \E p \in Invocations :
        \/ RaceCallHolders(p) \/ RaceScanBatch(p) \/ RaceBalanceRead(p)
        \/ RaceStoreHolders(p)
        \/ RaceCallIsEoa(p) \/ RaceCodeRead(p) \/ RaceStoreFact(p)

RaceSpec == RaceInit /\ [][RaceNext]_vars

(***************************************************************************)
(* The scoring functions on their own: an argument is drawn and the        *)
(* function applied to it.                                                 *)
(***************************************************************************)
\* a mapping of n holders with keys 1..n, each balance 1 or MaxBalance
RECURSIVE HolderMappings(_)
HolderMappings(n) ==
    IF n = 0 THEN {<< >>}
    ELSE LET shorter == HolderMappings(n - 1)
         IN  shorter \cup
             {Append(h, [addr |-> n, balance |-> b]) :
                 h \in {g \in shorter : Len(g) = n - 1}, b \in {1, MaxBalance}}

Percentages == {Rat(k, PctSteps) : k \in 0..(100 * PctSteps)}
EOACounts == 0..MaxEOA
ScoreHours == (-1)..MaxScoreHours

ConcentrationArgs ==
    {[fn |-> "concentration", holders |-> h, p |-> RatInt(0), count |-> 0, hours |-> 1] :
        h \in HolderMappings(TOP_N + ExtraHolders)}
HolderScoreArgs ==
    {[fn |-> "holder_score", holders |-> << >>, p |-> x, count |-> 0, hours |-> 1] :
        x \in Percentages}
ActivityScoreArgs ==
    {[fn |-> "activity_score", holders |-> << >>, p |-> RatInt(0), count |-> c, hours |-> h] :
        c \in EOACounts, h \in ScoreHours}

\* the events a log query may return, and the lists of them analysed
TransferEvents == {[from |-> f, to |-> t] : f \in Addresses, t \in Addresses}
ActivityArgs ==
    {[fn |-> "activity", holders |-> << >>, p |-> RatInt(0), count |-> 0, hours |-> 1,
      events |-> evs] : evs \in SeqsUpTo(TransferEvents, MaxEvents)}

\* The code facts and use_cache matter to the analysis of events only.
ScoreInit ==
    /\ arg \in ConcentrationArgs \cup HolderScoreArgs \cup ActivityScoreArgs
                \cup ActivityArgs
    /\ analyzer = IF arg.fn = "activity" THEN "UniqueEOAAnalyzer" ELSE "HolderAnalyzer"
    /\ has_code \in IF arg.fn = "activity" THEN [Addresses -> BOOLEAN]
                    ELSE {[a \in Addresses |-> FALSE]}
    /\ use_cache \in IF arg.fn = "activity" THEN BOOLEAN ELSE {FALSE}
    /\ db = NoEntry
    /\ cache = [a \in Addresses |-> NoFact]
    /\ Idle
    /\ NoRace
    /\ ret = NoResult

pipelineVars == <<has_code, use_cache, db, cache, analyzer, op, pc, from_block,
                  to_block, time_window_hours, current, all_addresses, checked,
                  holders, events, idx, eoa_addresses, contract_addresses,
                  eoa_tx_count, result, queries, seen, balance_reads, code_reads>>

\* holder_analysis.py lines 154-194 on a mapping
ApplyConcentration ==
    /\ arg.fn = "concentration" /\ ret = NoResult
    /\ ret' = concentration_result(arg.holders)
    /\ UNCHANGED <<pipelineVars, raceVars, arg>>

\* holder_analysis.py lines 182 and 185 on a percentage
ApplyHolderScore ==
    /\ arg.fn = "holder_score" /\ ret = NoResult
    /\ ret' = [score |-> HolderAnalyzer_calculate_score(arg.p),
               risk_level |-> HolderAnalyzer_determine_risk_level(arg.p)]
    /\ UNCHANGED <<pipelineVars, raceVars, arg>>

\* unique_eoa.py line 145 on a count and a time window
ApplyActivityScore ==
    /\ arg.fn = "activity_score" /\ ret = NoResult
    /\ ret' = UniqueEOAAnalyzer_calculate_score(arg.count, arg.hours)
    /\ UNCHANGED <<pipelineVars, raceVars, arg>>

\* unique_eoa.py lines 101-158 on a list of events
ApplyActivity ==
    /\ arg.fn = "activity" /\ ret = NoResult
    /\ ret' = analyze_transfer_events(arg.events, arg.hours)
    /\ UNCHANGED <<pipelineVars, raceVars, arg>>

ScoreNext == ApplyConcentration \/ ApplyHolderScore \/ ApplyActivityScore \/ ApplyActivity

ScoreSpec == ScoreInit /\ [][ScoreNext]_vars

(***************************************************************************)
(* The reads of ContractReader on their own: a reader has no state, each   *)
(* call is one contract call whose outcome the chain decides.              *)
(***************************************************************************)
ReaderMethods == {"get_name", "get_symbol", "get_decimals", "get_total_supply",
                  "get_balance", "get_transfer_events"}

\* a read and, for get_balance, the address it is about
ReaderArgs ==
    {[fn |-> "reader", method |-> m, address |-> ZERO_ADDRESS] :
        m \in ReaderMethods \ {"get_balance"}}
        \cup {[fn |-> "reader", method |-> "get_balance", address |-> a] : a \in Addresses}

ReaderInit ==
    /\ analyzer = "HolderAnalyzer"
    /\ has_code = [a \in Addresses |-> FALSE]
    /\ use_cache = FALSE
    /\ db = NoEntry
    /\ cache = [a \in Addresses |-> NoFact]
    /\ Idle
    /\ NoRace
    /\ arg \in ReaderArgs
    /\ ret = [calls |-> << >>]

\* one more call of the read: the contract call answers or fails, and the
\* caller gets what the read returns
ReaderReturns(call) ==
    /\ Len(ret.calls) < MaxReads
    /\ ret' = [calls |-> Append(ret.calls, call)]
    /\ UNCHANGED <<pipelineVars, raceVars, arg>>

ReadName ==
    /\ arg.fn = "reader" /\ arg.method = "get_name"
    /\ \E o \in NameOutcomes : ReaderReturns([failed |-> o.failed, value |-> get_name(o)])

ReadSymbol ==
    /\ arg.fn = "reader" /\ arg.method = "get_symbol"
    /\ \E o \in SymbolOutcomes : ReaderReturns([failed |-> o.failed, value |-> get_symbol(o)])

ReadDecimals ==
    /\ arg.fn = "reader" /\ arg.method = "get_decimals"
    /\ \E o \in DecimalsOutcomes :
          ReaderReturns([failed |-> o.failed, value |-> get_decimals(o)])

ReadTotalSupply ==
    /\ arg.fn = "reader" /\ arg.method = "get_total_supply"
    /\ \E o \in SupplyOutcomes :
          ReaderReturns([failed |-> o.failed, value |-> get_total_supply(o)])

ReadBalance ==
    /\ arg.fn = "reader" /\ arg.method = "get_balance"
    /\ \E o \in BalanceOutcomes :
          ReaderReturns([failed |-> o = -1, value |-> get_balance(o)])

\* get_transfer_events over a block range: one eth_getLogs round trip; the
\* raw logs it answered are kept beside the records returned
ReadTransferEvents ==
    /\ arg.fn = "reader" /\ arg.method = "get_transfer_events"
    /\ ret.calls = << >>
    /\ \E o \in QueryOutcomes :
          ReaderReturns([failed |-> o.kind # "ok", value |-> get_transfer_events(o).events,
                         logs |-> o.logs])

ReaderNext ==
    \/ ReadName \/ ReadSymbol \/ ReadDecimals \/ ReadTotalSupply \/ ReadBalance
    \/ ReadTransferEvents

ReaderSpec == ReaderInit /\ [][ReaderNext]_vars

(***************************************************************************)
(* Properties.                                                             *)
(***************************************************************************)
ScanOver == op \in HolderOps /\ pc \in {"balances", "done"} /\ queries # << >>

\* C1: the scan loop of get_all_holders terminates whatever the log queries
\* answer: every iteration moves the cursor strictly forward and never beyond
\* to_block + 1 (so the loop runs at most to_block - from_block + 1 times), a
\* query never starts before the cursor (no block the cursor has passed is
\* queried again), the loop goes on exactly while current <= to_block, and it
\* is left with current > to_block.
C1_ScanTerminates ==
    /\ [][pc = "scan" =>
            /\ current' > current
            /\ current' <= to_block + 1
            /\ \A i \in (Len(queries) + 1)..Len(queries') :
                    queries'[i].start >= current
            /\ (pc' = "scan" <=> current' <= to_block)]_vars
    /\ [](pc = "scan" => from_block <= current /\ current <= to_block)
    /\ [](ScanOver => current > to_block)

\* a scan of several batches, every query failing with the capacity error
C1_Witness ==
    /\ ScanOver
    /\ Len(queries) >= 2
    /\ \A i \in 1..Len(queries) : queries[i].kind = "capacity"
    /\ current > to_block

\* C2: a failing log query neither raises nor ends the scan: the scan goes on
\* to to_block, and every non-zero address logged by a query that succeeded
\* is in the participant set.
C2_FailedBatchSkipped ==
    op \in HolderOps =>
        /\ pc # "raised"
        /\ seen \ {ZERO_ADDRESS} \subseteq all_addresses
        /\ (ScanOver => queries[Len(queries)].end = to_block)

\* a failed query, then a later one that succeeded and logged an address
C2_Witness ==
    /\ ScanOver /\ pc = "done"
    /\ \E i, j \in 1..Len(queries) :
          i < j /\ queries[i].kind # "ok" /\ queries[j].kind = "ok"
    /\ seen \ {ZERO_ADDRESS} # {}
    /\ seen \ {ZERO_ADDRESS} \subseteq all_addresses

\* C3 as claimed: no failure of an external read reaches the caller of a
\* public operation.
C3_NoReadFailureRaised ==
    ~(pc = "raised" /\ result.exception \in {"capacity", "other", "is_contract failed"})

\* C4: the zero address is never a participant nor a holder, nor in the
\* mapping stored or returned.
NoZeroHolder(h) == \A i \in 1..Len(h) : h[i].addr # ZERO_ADDRESS

C4_NoZeroAddressHolder ==
    op \in HolderOps =>
        /\ ZERO_ADDRESS \notin all_addresses
        /\ NoZeroHolder(holders)
        /\ NoZeroHolder(db.value)
        /\ (pc = "done" /\ op = "get_all_holders" => NoZeroHolder(result.holders))

\* the logs name the zero address and the scan found holders
C4_Witness ==
    /\ op = "get_all_holders" /\ pc = "done"
    /\ ZERO_ADDRESS \in seen
    /\ Len(result.holders) > 0

Returned(r) == "none" \notin DOMAIN r

\* the sum of the k largest balances of a mapping
RECURSIVE LargestSum(_, _)
LargestSum(h, k) ==
    IF k = 0 \/ h = << >> THEN 0
    ELSE LET i == CHOOSE x \in 1..Len(h) : \A y \in 1..Len(h) : h[y].balance <= h[x].balance
         IN  h[i].balance + LargestSum(SubSeq(h, 1, i - 1) \o SubSeq(h, i + 1, Len(h)), k - 1)

\* C5: for a non-empty mapping top10_percentage is 100 * (the sum of the
\* min(10, n) largest balances) / (the sum of all balances), and total_supply
\* is that sum of all balances.
C5_Top10OverObservedSum ==
    arg.fn = "concentration" /\ Returned(ret) /\ Len(arg.holders) > 0 =>
        LET total == SumBalances(arg.holders)
            top == LargestSum(arg.holders, Min(10, Len(arg.holders)))
        IN  /\ ret.total_supply = total
            /\ ret.total_holders = Len(arg.holders)
            /\ ret.top10_percentage.num * total = 100 * top * ret.top10_percentage.den

\* more than ten holders, the ten largest holding less than everything
C5_Witness ==
    /\ arg.fn = "concentration" /\ Returned(ret)
    /\ Len(arg.holders) > TOP_N
    /\ RatLt(ret.top10_percentage, RatInt(100))
    /\ RatLt(RatInt(50), ret.top10_percentage)

\* the score table of the concentration score, p = num / den
ConcentrationScoreTable(p) ==
    IF p.num <= 20 * p.den THEN RatInt(30)
    ELSE IF p.num <= 40 * p.den THEN Rat(180 * p.den - 3 * p.num, 4 * p.den)
         ELSE IF p.num < 80 * p.den THEN Rat(240 * p.den - 3 * p.num, 8 * p.den)
              ELSE RatInt(0)

\* C6: the concentration score follows the table, is exactly 30 at 20, 15 at
\* 40 and 0 from 80 on, never increases with p and has no jump: between two
\* percentages it falls by at most 0.75 times their distance.
C6_ConcentrationScoreCurve ==
    arg.fn = "holder_score" /\ Returned(ret) =>
        /\ ret.score = ConcentrationScoreTable(arg.p)
        /\ (arg.p = RatInt(20) => ret.score = RatInt(30))
        /\ (arg.p = RatInt(40) => ret.score = RatInt(15))
        /\ (RatLe(RatInt(80), arg.p) => ret.score = RatInt(0))
        /\ \A q \in Percentages :
              RatLe(arg.p, q) =>
                  LET sq == HolderAnalyzer_calculate_score(q)
                  IN  /\ RatLe(sq, ret.score)
                      /\ RatLe(RatSub(ret.score, sq), RatMul(Rat(3, 4), RatSub(q, arg.p)))

\* a percentage on the last slope, its score strictly between 0 and 15
C6_Witness ==
    /\ arg.fn = "holder_score" /\ Returned(ret)
    /\ RatLt(RatInt(40), arg.p) /\ RatLt(arg.p, RatInt(80))
    /\ RatLt(RatInt(0), ret.score) /\ RatLt(ret.score, RatInt(15))

\* C7: the risk tier depends on p alone, with upper-inclusive boundaries at
\* 20, 40 and 60, and for 60 < p < 80 it is extreme while the score is above 0.
C7_RiskTiers ==
    arg.fn = "holder_score" /\ Returned(ret) =>
        /\ (arg.p.num <= 20 * arg.p.den <=> ret.risk_level = "low_risk")
        /\ (20 * arg.p.den < arg.p.num /\ arg.p.num <= 40 * arg.p.den
                <=> ret.risk_level = "medium_risk")
        /\ (40 * arg.p.den < arg.p.num /\ arg.p.num <= 60 * arg.p.den
                <=> ret.risk_level = "high_risk")
        /\ (60 * arg.p.den < arg.p.num <=> ret.risk_level = "extreme_risk")
        /\ (60 * arg.p.den < arg.p.num /\ arg.p.num < 80 * arg.p.den
                => RatLt(RatInt(0), ret.score))

\* a percentage between 60 and 80: extreme risk, score above 0
C7_Witness ==
    /\ arg.fn = "holder_score" /\ Returned(ret)
    /\ RatLt(RatInt(60), arg.p) /\ RatLt(arg.p, RatInt(80))
    /\ ret.risk_level = "extreme_risk"
    /\ RatLt(RatInt(0), ret.score)

\* the score table of the activity score for count / hours, not rounded
ActivityScoreTable(count, hours) ==
    LET n == Rat(count, hours)
    IN  IF n.num >= 300 * n.den THEN RatInt(40)
        ELSE IF n.num >= 50 * n.den THEN Rat(400 * n.den + 2 * n.num, 25 * n.den)
             ELSE Rat(2 * n.num, 5 * n.den)

ActivityRiskTable(count, hours) ==
    LET n == Rat(count, hours)
    IN  IF n.num >= 300 * n.den THEN "low_risk"
        ELSE IF n.num >= 50 * n.den THEN "medium_risk"
             ELSE "high_risk"

ActivityScored == arg.fn = "activity_score" /\ Returned(ret) /\ arg.hours # 0

\* C8 as claimed: the activity score is the value of the table.
C8_UnroundedScore ==
    ActivityScored =>
        /\ ~ret.raised
        /\ ret.score = ActivityScoreTable(arg.count, arg.hours)
        /\ ret.risk_level = ActivityRiskTable(arg.count, arg.hours)

\* C8, amended: the activity score is the value of the table rounded to two
\* decimals, with the risk of the table; it is exactly 0 at n = 0, 20 at
\* n = 50 and 40 at n = 300, and it never decreases with n.
C8_RoundedScore ==
    ActivityScored =>
        LET n == Rat(arg.count, arg.hours)
        IN  /\ ~ret.raised
            /\ ret.score = Round2(ActivityScoreTable(arg.count, arg.hours))
            /\ ret.risk_level = ActivityRiskTable(arg.count, arg.hours)
            /\ (n = RatInt(0) => ret.score = RatInt(0))
            /\ (n = RatInt(50) => ret.score = RatInt(20))
            /\ (n = RatInt(300) => ret.score = RatInt(40))
            /\ \A c \in EOACounts, h \in ScoreHours \ {0} :
                  RatLe(n, Rat(c, h)) =>
                      RatLe(ret.score, UniqueEOAAnalyzer_calculate_score(c, h).score)

\* a count and a window whose score the rounding changes
C8_Witness ==
    /\ ActivityScored
    /\ ret.score # ActivityScoreTable(arg.count, arg.hours)
    /\ ret.risk_level = "medium_risk"

ScoreIn(x, lo, hi) == RatLe(RatInt(lo), x) /\ RatLe(x, RatInt(hi))

\* C9 as claimed: the concentration score returned is in [0,30] and the
\* activity score returned is in [0,40].
C9_ScoresInRange ==
    /\ (pc = "done" /\ op = "analyze_holder_concentration"
            => ScoreIn(result.score, 0, 30))
    /\ (pc = "done" /\ op = "analyze_transfer_events"
            => ScoreIn(result.score, 0, 40))

\* C10: an empty holder mapping gives the terminal result of
\* analyze_holder_concentration (0 holders, score 0.0, risk unknown, an error
\* field, no percentage), and a scan without records gives the terminal result
\* of analyze_transfer_events (0 EOAs, score 0, risk high, a message field)
\* with no address classified; neither is an error, and a non-empty mapping
\* never gives the terminal result.
C10_EmptyResults ==
    /\ (op = "analyze_holder_concentration" /\ pc = "done" /\ holders = << >>
            => /\ result.total_holders = 0
               /\ result.total_supply = 0
               /\ result.top10_holders = << >>
               /\ result.top10_percentage = RatInt(0)
               /\ result.score = RatInt(0)
               /\ result.risk_level = "unknown"
               /\ "error" \in DOMAIN result)
    /\ (op = "analyze_holder_concentration" /\ pc = "done" /\ holders # << >>
            => /\ result.total_holders > 0
               /\ result.risk_level # "unknown"
               /\ "error" \notin DOMAIN result)
    /\ (op = "analyze_transfer_events" /\ events = << >>
            => /\ pc = "done"
               /\ result.unique_eoa_count = 0
               /\ result.total_addresses = 0
               /\ result.score = RatInt(0)
               /\ result.risk_level = "high_risk"
               /\ "message" \in DOMAIN result
               /\ code_reads = 0
               /\ \A a \in Addresses : ~cache[a].present)

\* participants were found, each with a zero balance: no holder
C10_Witness ==
    /\ op = "analyze_holder_concentration" /\ pc = "done"
    /\ all_addresses # {} /\ balance_reads > 0
    /\ holders = << >>
    /\ result.risk_level = "unknown"

\* C11: with the cache on, an is_eoa call that misses does exactly one code
\* read, stores the boolean it returns under the address and answers the
\* code fact; a call that finds the entry returns the stored boolean, true or
\* false, with no code read and leaves the cache alone; an entry keeps its
\* boolean while it is present; and the event loop reads code at most once
\* for each address of the event that has no entry.
C11_ClassifierCache ==
    /\ [][pc = "idle" /\ op' = "is_eoa" /\ use_cache =>
            \A a \in all_addresses' :
                IF cache[a].present
                THEN /\ pc' = "done"
                     /\ result'.is_eoa = cache[a].value
                     /\ code_reads' = 0
                     /\ cache' = cache
                ELSE /\ code_reads' = 1
                     /\ (pc' = "done" =>
                            /\ result'.is_eoa = ~has_code[a]
                            /\ cache' = [cache EXCEPT ![a] = Fact(result'.is_eoa)])]_vars
    /\ [][\A a \in Addresses :
            cache[a].present /\ cache'[a].present => cache'[a].value = cache[a].value]_vars
    /\ [][pc = "classify" /\ use_cache =>
            code_reads' - code_reads <=
                Cardinality({a \in {events[idx + 1].from, events[idx + 1].to} :
                                ~cache[a].present})]_vars

\* is_eoa answered "contract" from the cache, without a code read
C11_Witness ==
    /\ op = "is_eoa" /\ pc = "done" /\ use_cache
    /\ code_reads = 0
    /\ result.is_eoa = FALSE
    /\ \A a \in all_addresses : has_code[a] /\ cache[a] = Fact(FALSE)

\* C12 as claimed: with use_cache on, a call of get_all_holders (or of the
\* analysis on top of it) that finds a stored mapping, whichever mapping an
\* earlier call stored, returns it unchanged at once, with no log query and
\* no balance read, whatever block range it is called with.
C12_CacheHitShortCircuits ==
    [][pc = "idle" /\ op' \in HolderOps /\ use_cache /\ db.present =>
            /\ pc' = "done"
            /\ holders' = db.value
            /\ queries' = << >>
            /\ balance_reads' = 0
            /\ db' = db]_vars

\* C13: a read of ContractReader whose contract call fails returns its
\* documented default: "Unknown" for get_name, "UNKNOWN" for get_symbol, 18
\* for get_decimals, 0 for get_total_supply and 0 for get_balance, on the
\* first call and on every later one.
C13_ReaderDefaults ==
    arg.fn = "reader" =>
        \A i \in 1..Len(ret.calls) :
            ret.calls[i].failed =>
                /\ (arg.method = "get_name" => ret.calls[i].value = "Unknown")
                /\ (arg.method = "get_symbol" => ret.calls[i].value = "UNKNOWN")
                /\ (arg.method = "get_decimals" => ret.calls[i].value = 18)
                /\ (arg.method = "get_total_supply" => ret.calls[i].value = 0)
                /\ (arg.method = "get_balance" => ret.calls[i].value = 0)

\* the balance read of one address failed twice and returned 0 twice
C13_Witness ==
    /\ arg.fn = "reader" /\ arg.method = "get_balance" /\ arg.address # ZERO_ADDRESS
    /\ Len(ret.calls) = 2
    /\ ret.calls[1].failed /\ ret.calls[2].failed
    /\ ret.calls[1].value = 0 /\ ret.calls[2].value = 0

\* C15: a scan of a single block [b, b] issues at most one log query, over
\* [b, b], and no query over a halved range, whatever the query answers.
C15_SingleBlockScan ==
    op \in HolderOps /\ from_block = to_block =>
        /\ Len(queries) <= 1
        /\ \A i \in 1..Len(queries) :
              queries[i].start = from_block /\ queries[i].end = to_block
        /\ (ScanOver => Len(queries) = 1 /\ current = to_block + 1)

\* the one query of a single-block scan failed with the capacity error
C15_Witness ==
    /\ op \in HolderOps /\ from_block = to_block /\ ScanOver
    /\ Len(queries) = 1 /\ queries[1].kind = "capacity"

\* the halved width of a query
HalfWidth(q) == (q.end - q.start) \div 2

\* the query is the first at its cursor
FirstAtCursor(i) == i = 1 \/ queries[i - 1].start # queries[i].start

\* the query is the last at its cursor: the cursor moved on after it
LastAtCursor(i) == i = Len(queries) \/ queries[i + 1].start # queries[i].start

\* C16 as claimed: when the log query of a batch fails with the capacity
\* error and half its width is at least 100 blocks, get_all_holders issues a
\* second query from the same cursor over half the width before moving on.
C16_CapacityRetry ==
    op \in HolderOps =>
        \A i \in 1..Len(queries) :
            queries[i].kind = "capacity" /\ FirstAtCursor(i)
              /\ HalfWidth(queries[i]) >= MIN_BATCH
            => /\ i < Len(queries)
               /\ queries[i + 1].start = queries[i].start
               /\ queries[i + 1].end = queries[i].start + HalfWidth(queries[i])

\* C17 as claimed: a sub-range is abandoned after a capacity error only once
\* the halved width is below 100 blocks: the last query at a cursor, when it
\* failed with the capacity error, has a halved width below 100.
C17_RetryUntilFloor ==
    op \in HolderOps =>
        \A i \in 1..Len(queries) :
            queries[i].kind = "capacity" /\ LastAtCursor(i)
            => HalfWidth(queries[i]) < MIN_BATCH

\* C18: the queried ranges of a scan lie inside [from_block, to_block], each
\* ends at min(start + 1000, to_block), each starts right after the one
\* before (so they do not overlap and are in increasing block order), the
\* first starts at from_block and, the scan over, the last ends at to_block:
\* every block is in exactly one queried range, so the ranges cover the
\* interval when no query fails and a block no successful range covers is in
\* a range whose query failed.
C18_RangesPartitionInterval ==
    op \in HolderOps /\ queries # << >> =>
        /\ \A i \in 1..Len(queries) :
              /\ from_block <= queries[i].start
              /\ queries[i].start <= queries[i].end
              /\ queries[i].end <= to_block
              /\ queries[i].end = Min(queries[i].start + 1000, to_block)
        /\ queries[1].start = from_block
        /\ \A i \in 1..(Len(queries) - 1) : queries[i + 1].start = queries[i].end + 1
        /\ current = queries[Len(queries)].end + 1
        /\ (ScanOver => queries[Len(queries)].end = to_block)

\* a scan of several batches, one failed and a later one answering records
C18_Witness ==
    /\ ScanOver /\ Len(queries) >= 2
    /\ queries[1].kind = "other"
    /\ queries[Len(queries)].kind = "ok"
    /\ seen # {}

\* C19 as claimed: the activity operations read their records through the
\* batched scan of get_all_holders: their log queries start at from_block,
\* each ends at min(start + 1000, to_block) and starts right after the one
\* before, and the last one ends at to_block, so that a failed query loses
\* one batch only.
C19_ActivityUsesBatchedScan ==
    op \in ActivityOps /\ queries # << >> =>
        /\ queries[1].start = from_block
        /\ \A i \in 1..Len(queries) :
              queries[i].end = Min(queries[i].start + 1000, to_block)
        /\ \A i \in 1..(Len(queries) - 1) : queries[i + 1].start = queries[i].end + 1
        /\ queries[Len(queries)].end = to_block

\* the addresses the first n events mention
Participants(n) == event_addresses(SubSeq(events, 1, n))

\* C20: in analyze_transfer_events the three sets are sets of distinct
\* addresses: after any number of events the participant set is the set of
\* addresses mentioned so far, the EOA set its addresses without code and the
\* contract set its addresses with code, so the two are disjoint and cover
\* it; the result reports their cardinalities, and unique_eoa_count +
\* contract_addresses = total_addresses.
C20_DistinctAddressCounts ==
    op = "analyze_transfer_events" /\ pc \in {"classify", "done"} /\ events # << >> =>
        /\ all_addresses = Participants(idx)
        /\ eoa_addresses = {a \in Participants(idx) : ~has_code[a]}
        /\ contract_addresses = {a \in Participants(idx) : has_code[a]}
        /\ eoa_addresses \cap contract_addresses = {}
        /\ (pc = "done" =>
              /\ idx = Len(events)
              /\ result.unique_eoa_count =
                    Cardinality({a \in Participants(Len(events)) : ~has_code[a]})
              /\ result.unique_eoa_list = eoa_addresses
              /\ result.total_addresses = Cardinality(Participants(Len(events)))
              /\ result.unique_eoa_count + result.contract_addresses
                    = result.total_addresses)

\* an EOA is sender of one record and recipient of another, next to a
\* contract: it counts once
C20_Witness ==
    /\ op = "analyze_transfer_events" /\ pc = "done" /\ Len(events) = 2
    /\ events[1].from = events[2].to
    /\ ~has_code[events[1].from]
    /\ has_code[events[1].to]
    /\ events[2].from = events[1].to
    /\ result.unique_eoa_count = 1
    /\ result.contract_addresses = 1
    /\ result.total_addresses = 2

\* a stored mapping as a dict: equal whatever the insertion order
AsDict(h) == {h[i] : i \in 1..Len(h)}

\* C14 as claimed: when two interleaved invocations both write a cache key,
\* the second writes the value the first wrote: a write of is_eoa_<address>
\* over an entry keeps its boolean, and a write of holders_<token> over a
\* stored mapping that is not empty (which only an invocation that checked
\* the cache before the other stored can do) keeps the mapping, whatever the
\* block ranges of the two calls.
C14_RacingWritesEqual ==
    /\ [][\A a \in Addresses :
            cache[a].present /\ cache'[a].present => cache'[a].value = cache[a].value]_vars
    /\ [][db.present /\ db.value # << >> /\ db'.present
            => AsDict(db'.value) = AsDict(db.value)]_vars

\* the raw log decodes
Decodes(log) == log.ok

\* C22: when the log query succeeds, get_transfer_events returns one record
\* for every raw log that decodes, in log order, with that log's from and to:
\* a malformed log is left out alone, the logs before and after it keep their
\* records.
C22_MalformedLogSkippedAlone ==
    arg.fn = "reader" /\ arg.method = "get_transfer_events" =>
        \A i \in 1..Len(ret.calls) :
            ~ret.calls[i].failed =>
                LET decoded == SelectSeq(ret.calls[i].logs, Decodes)
                    records == ret.calls[i].value
                IN  /\ Len(records) = Len(decoded)
                    /\ \A k \in 1..Len(decoded) :
                          /\ records[k].from = decoded[k].from
                          /\ records[k].to = decoded[k].to

\* a malformed log followed by one that decodes: one record, the second's
C22_Witness ==
    /\ arg.fn = "reader" /\ arg.method = "get_transfer_events"
    /\ Len(ret.calls) = 1 /\ ~ret.calls[1].failed
    /\ Len(ret.calls[1].logs) = 2
    /\ ~ret.calls[1].logs[1].ok /\ ret.calls[1].logs[2].ok
    /\ ret.calls[1].logs[2].to # ZERO_ADDRESS
    /\ Len(ret.calls[1].value) = 1
    /\ ret.calls[1].value[1].to = ret.calls[1].logs[2].to

\* C23: analyze_transfer_events keeps the zero address: once a record naming
\* it as from or to is classified, it is in the participant set and, when the
\* code read reports no code there, in the EOA set, and the result counts it
\* in total_addresses and unique_eoa_count; get_all_holders never has it in
\* its participant set, which is the logged addresses but the zero address.
C23_ZeroAddressCountedInActivity ==
    /\ (op = "analyze_transfer_events" /\ pc \in {"classify", "done"}
          /\ ZERO_ADDRESS \in Participants(idx)
        => /\ ZERO_ADDRESS \in all_addresses
           /\ (~has_code[ZERO_ADDRESS] => ZERO_ADDRESS \in eoa_addresses)
           /\ (pc = "done" =>
                 /\ result.total_addresses = Cardinality(Participants(Len(events)))
                 /\ (~has_code[ZERO_ADDRESS] =>
                       /\ ZERO_ADDRESS \in result.unique_eoa_list
                       /\ result.unique_eoa_count = Cardinality(result.unique_eoa_list))))
    /\ (op \in HolderOps =>
          /\ ZERO_ADDRESS \notin all_addresses
          /\ (ScanOver => all_addresses = seen \ {ZERO_ADDRESS}))

\* a mint to an EOA: the zero address and the recipient are both counted
C23_Witness ==
    /\ op = "analyze_transfer_events" /\ pc = "done" /\ Len(events) = 1
    /\ events[1].from = ZERO_ADDRESS /\ events[1].to # ZERO_ADDRESS
    /\ ~has_code[ZERO_ADDRESS] /\ ~has_code[events[1].to]
    /\ result.unique_eoa_count = 2
    /\ result.total_addresses = 2
    /\ ZERO_ADDRESS \in result.unique_eoa_list

\* the orders of n elements
Orders(n) == {f \in [1..n -> 1..n] : \A i, j \in 1..n : f[i] = f[j] => i = j}

\* a list in another order
Reordered(s, f) == [i \in 1..Len(s) |-> s[f[i]]]

\* a dict with entries i and j inserted in each other's place
Swapped(h, i, j) == [h EXCEPT ![i] = h[j], ![j] = h[i]]

\* the aggregate fields of the two results
SameConcentration(r1, r2) ==
    /\ r1.total_holders = r2.total_holders
    /\ r1.total_supply = r2.total_supply
    /\ r1.top10_percentage = r2.top10_percentage
    /\ r1.score = r2.score
    /\ r1.risk_level = r2.risk_level

SameActivity(r1, r2) ==
    /\ r1.raised = r2.raised
    /\ r1.value.unique_eoa_count = r2.value.unique_eoa_count
    /\ r1.value.total_addresses = r2.value.total_addresses
    /\ r1.value.contract_addresses = r2.value.contract_addresses
    /\ r1.value.score = r2.value.score
    /\ r1.value.risk_level = r2.value.risk_level

\* C21: the aggregates do not depend on the order of the records: the result
\* of analyze_holder_concentration for a mapping has the same total_holders,
\* total_supply, top10_percentage, score and risk level as for the mapping
\* with two entries exchanged (the order in which records introduce the
\* holders): two neighbours, which generate every order, or one of the first
\* ten and a later one, also between equal balances at the top-10 cut; and the
\* result of analyze_transfer_events for a list of events has the same
\* unique_eoa_count, total_addresses, contract_addresses, score and risk
\* level as for every permutation of the list.
C21_OrderIndependent ==
    /\ (arg.fn = "concentration" /\ Returned(ret) =>
            \A i \in 1..Len(arg.holders) : \A j \in (i + 1)..Len(arg.holders) :
                j = i + 1 \/ (i <= TOP_N /\ TOP_N < j) =>
                    SameConcentration(concentration_result(Swapped(arg.holders, i, j)), ret))
    /\ (arg.fn = "activity" /\ Returned(ret) =>
            \A f \in Orders(Len(arg.events)) :
                SameActivity(analyze_transfer_events(Reordered(arg.events, f), arg.hours),
                             ret))

\* more holders than ten with equal balances on both sides of the cut
C21_Witness ==
    /\ arg.fn = "concentration" /\ Returned(ret)
    /\ Len(arg.holders) > TOP_N
    /\ \E i \in 1..TOP_N, j \in (TOP_N + 1)..Len(arg.holders) :
          /\ ret.top10_holders[TOP_N].balance = sorted_holders(arg.holders)[TOP_N + 1].balance
          /\ arg.holders[i].balance < arg.holders[j].balance
    /\ RatLt(ret.top10_percentage, RatInt(100))

\* three records in which an EOA and a contract take part more than once
C21_ActivityWitness ==
    /\ arg.fn = "activity" /\ Returned(ret) /\ ~ret.raised
    /\ Len(arg.events) = 3
    /\ arg.events[1] # arg.events[2] /\ arg.events[2] # arg.events[3]
    /\ ret.value.unique_eoa_count = 1 /\ ret.value.contract_addresses = 1

====
